---- MODULE Spec2Model ----
(***************************************************************************)
(* A model of the DAG class of src/__init__.py: the adjacency mapping      *)
(* self.graph, the derived self.levels / self.max_level, and one action    *)
(* per public method.  Python sets and dicts iterate in an order the       *)
(* language does not fix, so every iteration over one is a choice among    *)
(* all orders of its elements.                                             *)
(***************************************************************************)
EXTENDS Integers, Sequences, FiniteSets, TLC

\* Number of distinct node identifiers the callers use.
NumNodes == 4

\* Largest number of edges the callers put into one graph.
MaxEdges == 4

NodeIds == 1..NumNodes

\* Number of distinct identifiers in the mappings handed to from_dict, and
\* the longest value such a mapping holds.
NumDictIds == 3

MaxListLen == 2

DictIds == 1..NumDictIds

\* Bound of the from_json inputs: the keys a nested hierarchy may use.
NumJsonKeys == 3

JsonIds == 1..NumJsonKeys

\* the default of from_json's and all_paths' start parameter
None == 0

VARIABLES
    graph,       \* self.graph: node -> set of direct successors
    levels,      \* self.levels: node -> depth
    max_level,   \* self.max_level
    graph_dict,  \* the mapping the caller hands to from_dict
    js,          \* the nested hierarchy the caller hands to from_json
    start,       \* the start argument the caller hands to from_json
    adding,      \* the edge an add_edge call has inserted and not yet validated
    call,        \* how the last mutating call ended
    answer       \* the query the caller made last, and what it got back

vars == <<graph, levels, max_level, graph_dict, js, start, adding, call, answer>>

\* ------------------------------------------------------------------------
\* Python values

\* the empty dict {}
EmptyDict == [k \in {} |-> {}]

\* d[k] = v on a dict
Put(d, k, v) == [x \in (DOMAIN d) \cup {k} |-> IF x = k THEN v ELSE d[x]]

\* every order in which a set (or the keys of a dict) can be iterated
RECURSIVE Orders(_)
Orders(S) ==
    IF S = {} THEN {<<>>}
    ELSE UNION {{<<x>> \o s : s \in Orders(S \ {x})} : x \in S}

\* the names bound at module level (imports and classes); a bare name that
\* is neither local nor one of these raises NameError
ModuleNames == {"json", "traceback", "copy", "deepcopy", "DAGValidationError", "DAG"}

\* what the caller observes of a completed mutating call: the method, how it
\* ended (exc = "none" for a normal return) and the lines it printed.  Its
\* arguments are not recorded: the properties of such a call quantify over
\* them.
Call(op, exc, out) == [op |-> op, exc |-> exc, out |-> out]

\* a completed query: the method, its arguments, how it ended and the value
\* it returned
Answer(op, args, exc, ret) == [op |-> op, args |-> args, exc |-> exc, ret |-> ret]

NoAnswer == Answer("none", <<>>, "none", <<>>)

\* ------------------------------------------------------------------------
\* Graph-theoretic vocabulary used by the properties (not by the code)

Edges(g) == {e \in (DOMAIN g) \X NodeIds : e[2] \in g[e[1]]}

\* nodes reachable from n by one or more successor edges
RECURSIVE ReachFrom(_, _, _)
ReachFrom(g, frontier, seen) ==
    LET nxt == UNION {IF x \in DOMAIN g THEN g[x] ELSE {} : x \in frontier} \ seen
    IN IF nxt = {} THEN seen ELSE ReachFrom(g, nxt, seen \cup nxt)

Reach(g, n) == ReachFrom(g, {n}, {})

Acyclic(g) == \A n \in DOMAIN g : n \notin Reach(g, n)

\* adding u->v would close a cycle
ClosesCycle(g, u, v) == u = v \/ u \in Reach(g, v)

\* ------------------------------------------------------------------------
\* Queries

ind_nodes(g) == (DOMAIN g) \ UNION {g[k] : k \in DOMAIN g}

_dependencies(target_node, g) == {node \in DOMAIN g : target_node \in g[node]}

\* the for loop of topological_sort over iter_nodes, a copy of graph[n]
RECURSIVE topological_sort_for(_, _, _, _)
topological_sort_for(g, q, n, iter_nodes) ==
    IF iter_nodes = <<>> THEN [graph |-> g, q |-> q]
    ELSE LET m  == Head(iter_nodes)
             g2 == [g EXCEPT ![n] = @ \ {m}]
             q2 == IF Cardinality(_dependencies(m, g2)) = 0 THEN Append(q, m) ELSE q
         IN topological_sort_for(g2, q2, n, Tail(iter_nodes))

\* the while loop of topological_sort: every (graph, l) it can end with
RECURSIVE topological_sort_while(_, _, _)
topological_sort_while(g, q, l) ==
    IF Len(q) = 0 THEN {[graph |-> g, l |-> l]}
    ELSE LET n == Head(q)
         IN UNION {LET r == topological_sort_for(g, Tail(q), n, it)
                   IN topological_sort_while(r.graph, r.q, Append(l, n))
                   : it \in Orders(g[n])}

\* the sequence s back to front
Reverse(s) == [i \in 1..Len(s) |-> s[Len(s) + 1 - i]]

\* topological_sort that builds l by inserting at the front
topological_sort_prepend(g) ==
    UNION {{IF Len(r.l) # Cardinality(DOMAIN r.graph)
            THEN [exc |-> "ValueError", ret |-> <<>>]
            ELSE [exc |-> "none", ret |-> Reverse(r.l)]
            : r \in topological_sort_while(g, q, <<>>)}
           : q \in Orders(ind_nodes(g))}

\* every outcome of topological_sort() on graph g
topological_sort(g) ==
    UNION {{IF Len(r.l) # Cardinality(DOMAIN r.graph)
            THEN [exc |-> "ValueError", ret |-> <<>>]
            ELSE [exc |-> "none", ret |-> r.l]
            : r \in topological_sort_while(g, q, <<>>)}
           : q \in Orders(ind_nodes(g))}

\* validate() without its topological-sort step
validate_two_roots(g) ==
    IF Cardinality(ind_nodes(g)) <= 1
    THEN {<<FALSE, "no independent nodes detected">>}
    ELSE {IF t.exc = "ValueError" THEN <<FALSE, "failed topological sort">>
          ELSE <<TRUE, "valid">> : t \in topological_sort(g)}

validate_roots_only(g) ==
    IF Cardinality(ind_nodes(g)) = 0
    THEN {<<FALSE, "no independent nodes detected">>}
    ELSE {<<TRUE, "valid">>}

\* every (is_valid, message) validate() can return on graph g
validate(g) ==
    IF Cardinality(ind_nodes(g)) = 0
    THEN {<<FALSE, "no independent nodes detected">>}
    ELSE {IF t.exc = "ValueError" THEN <<FALSE, "failed topological sort">>
          ELSE <<TRUE, "valid">> : t \in topological_sort(g)}

\* every outcome of downstream(node): the successors as a list in some order
downstream(g, node) ==
    IF node \notin DOMAIN g
    THEN {[exc |-> "KeyError", ret |-> <<>>]}
    ELSE {[exc |-> "none", ret |-> l] : l \in Orders(g[node])}

\* the for loop of all_downstreams over the list downstreams
RECURSIVE all_downstreams_for(_, _, _)
all_downstreams_for(nodes, nodes_seen, downstreams) ==
    IF downstreams = <<>> THEN [nodes |-> nodes, nodes_seen |-> nodes_seen]
    ELSE LET downstream_node == Head(downstreams)
         IN IF downstream_node \notin nodes_seen
            THEN all_downstreams_for(Append(nodes, downstream_node),
                                     nodes_seen \cup {downstream_node},
                                     Tail(downstreams))
            ELSE all_downstreams_for(nodes, nodes_seen, Tail(downstreams))

\* the while loop of all_downstreams; i counts from 1 here, from 0 in the code
RECURSIVE all_downstreams_while(_, _, _, _)
all_downstreams_while(g, nodes, nodes_seen, i) ==
    IF ~(i <= Len(nodes)) THEN {[exc |-> "none", nodes_seen |-> nodes_seen]}
    ELSE UNION {IF d.exc # "none"
                THEN {[exc |-> d.exc, nodes_seen |-> nodes_seen]}
                ELSE LET r == all_downstreams_for(nodes, nodes_seen, d.ret)
                     IN all_downstreams_while(g, r.nodes, r.nodes_seen, i + 1)
                : d \in downstream(g, nodes[i])}

\* all_downstreams with the start node marked as seen from the outset
all_downstreams_seen_start(g, node) ==
    UNION {IF w.exc # "none" THEN {[exc |-> w.exc, ret |-> <<>>]}
           ELSE {IF t.exc # "none" THEN [exc |-> t.exc, ret |-> <<>>]
                 ELSE [exc |-> "none",
                       ret |-> SelectSeq(t.ret, LAMBDA x : x \in w.nodes_seen)]
                 : t \in topological_sort(g)}
           : w \in all_downstreams_while(g, <<node>>, {node}, 1)}

\* every outcome of all_downstreams(node): the loop, then the topological
\* sort filtered by nodes_seen
all_downstreams(g, node) ==
    UNION {IF w.exc # "none" THEN {[exc |-> w.exc, ret |-> <<>>]}
           ELSE {IF t.exc # "none" THEN [exc |-> t.exc, ret |-> <<>>]
                 ELSE [exc |-> "none",
                       ret |-> SelectSeq(t.ret, LAMBDA x : x \in w.nodes_seen)]
                 : t \in topological_sort(g)}
           : w \in all_downstreams_while(g, <<node>>, {}, 1)}

\* ------------------------------------------------------------------------
\* Mutations, as functions from the graph to the outcome of the call

\* add_node without the membership test: an existing entry is overwritten
add_node_overwrite(g, node_name) ==
    [graph |-> Put(g, node_name, {}), exc |-> "none"]

add_node(g, node_name) ==
    IF node_name \in DOMAIN g
    THEN [graph |-> g, exc |-> "ValueError"]
    ELSE [graph |-> Put(g, node_name, {}), exc |-> "none"]

add_node_if_not_exists(g, node_name) ==
    LET r == add_node(g, node_name)
    IN IF r.exc = "ValueError" THEN [graph |-> r.graph, exc |-> "none"] ELSE r

delete_node(g, node_name) ==
    IF "graph" \notin ModuleNames
    THEN [graph |-> g, exc |-> "NameError"]
    ELSE IF node_name \notin DOMAIN g
    THEN [graph |-> g, exc |-> "KeyError"]
    ELSE [graph |-> [k \in (DOMAIN g) \ {node_name} |-> g[k] \ {node_name}],
          exc |-> "none"]

delete_node_if_exists(g, node_name) ==
    LET r == delete_node(g, node_name)
    IN IF r.exc = "KeyError" THEN [graph |-> r.graph, exc |-> "none"] ELSE r

\* add_edge that keeps the edge when validation fails
add_edge_ignore_missing(g, ind_node, dep_node) ==
    IF ind_node \notin DOMAIN g \/ dep_node \notin DOMAIN g
    THEN {[graph |-> g, exc |-> "none", out |-> <<>>]}
    ELSE IF dep_node \in g[ind_node]
    THEN {[graph |-> g, exc |-> "none", out |-> <<>>]}
    ELSE LET g1 == [g EXCEPT ![ind_node] = @ \cup {dep_node}]
         IN {IF ~v[1]
             THEN [graph |-> [g1 EXCEPT ![ind_node] = @ \ {dep_node}],
                   exc |-> "none", out |-> <<v[2]>>]
             ELSE [graph |-> g1, exc |-> "none", out |-> <<>>]
             : v \in validate(g1)}

add_edge_no_rollback(g, ind_node, dep_node) ==
    IF ind_node \notin DOMAIN g \/ dep_node \notin DOMAIN g
    THEN {[graph |-> g, exc |-> "KeyError", out |-> <<>>]}
    ELSE IF dep_node \in g[ind_node]
    THEN {[graph |-> g, exc |-> "none", out |-> <<>>]}
    ELSE LET g1 == [g EXCEPT ![ind_node] = @ \cup {dep_node}]
         IN {[graph |-> g1, exc |-> "none",
              out |-> IF ~v[1] THEN <<v[2]>> ELSE <<>>] : v \in validate(g1)}

\* every outcome of add_edge(ind_node, dep_node); validate() never raises
\* DAGValidationError, so the except clause is never entered
add_edge(g, ind_node, dep_node) ==
    IF ind_node \notin DOMAIN g \/ dep_node \notin DOMAIN g
    THEN {[graph |-> g, exc |-> "KeyError", out |-> <<>>]}
    ELSE IF dep_node \in g[ind_node]
    THEN {[graph |-> g, exc |-> "none", out |-> <<>>]}
    ELSE LET g1 == [g EXCEPT ![ind_node] = @ \cup {dep_node}]
         IN {IF ~v[1]
             THEN [graph |-> [g1 EXCEPT ![ind_node] = @ \ {dep_node}],
                   exc |-> "none", out |-> <<v[2]>>]
             ELSE [graph |-> g1, exc |-> "none", out |-> <<>>]
             : v \in validate(g1)}

delete_edge(g, ind_node, dep_node) ==
    IF dep_node \notin (IF ind_node \in DOMAIN g THEN g[ind_node] ELSE {})
    THEN [graph |-> g, exc |-> "KeyError"]
    ELSE [graph |-> [g EXCEPT ![ind_node] = @ \ {dep_node}], exc |-> "none"]

\* ------------------------------------------------------------------------
\* Level indexing

\* the largest member of a non-empty set of integers: max(...)
Max(S) == CHOOSE x \in S : \A y \in S : y <= x

\* the while loop of build_levels with both membership tests left out: a
\* node is given the level of the last wave that reaches it
RECURSIVE build_levels_while_revisit(_, _, _, _, _)
build_levels_while_revisit(g, lv, batch, next_batch, level) ==
    IF batch = {} THEN {lv}
    ELSE UNION {LET b1  == batch \ {node}
                    lv1 == Put(lv, node, level)
                    nb1 == next_batch \cup g[node]
                IN IF Cardinality(b1) = 0
                   THEN build_levels_while_revisit(g, lv1, nb1, {}, level + 1)
                   ELSE build_levels_while_revisit(g, lv1, b1, nb1, level)
                : node \in batch}

\* the while loop of build_levels: every levels mapping it can end with.
\* batch.pop() takes any member of batch.  The inner for loop only adds to
\* the set next_batch and tests against levels, which it does not change,
\* so its result does not depend on the order it runs in.
RECURSIVE build_levels_while(_, _, _, _, _)
build_levels_while(g, lv, batch, next_batch, level) ==
    IF batch = {} THEN {lv}
    ELSE UNION {LET b1  == batch \ {node}
                    new == node \notin DOMAIN lv
                    lv1 == IF new THEN Put(lv, node, level) ELSE lv
                    nb1 == IF new
                           THEN next_batch \cup
                                {child \in g[node] : child \notin DOMAIN lv1}
                           ELSE next_batch
                IN IF Cardinality(b1) = 0
                   THEN build_levels_while(g, lv1, nb1, {}, level + 1)
                   ELSE build_levels_while(g, lv1, b1, nb1, level)
                : node \in batch}

\* build_levels that counts the nodes instead of taking the largest level
build_levels_count(g, old_max_level) ==
    IF Cardinality(ind_nodes(g)) = 0
    THEN {[levels |-> EmptyDict, max_level |-> old_max_level, exc |-> "ValueError"]}
    ELSE {[levels |-> lv,
           max_level |-> Cardinality(DOMAIN lv),
           exc |-> "none"]
          : lv \in build_levels_while(g, EmptyDict, ind_nodes(g), {}, 0)}

\* every outcome of build_levels(); self.levels is emptied before the root
\* test, self.max_level is assigned only at the end
build_levels(g, old_max_level) ==
    IF Cardinality(ind_nodes(g)) = 0
    THEN {[levels |-> EmptyDict, max_level |-> old_max_level, exc |-> "ValueError"]}
    ELSE {[levels |-> lv,
           max_level |-> Max({lv[n] : n \in DOMAIN lv}),
           exc |-> "none"]
          : lv \in build_levels_while(g, EmptyDict, ind_nodes(g), {}, 0)}

\* ------------------------------------------------------------------------
\* Bulk construction

reset_graph(g) == EmptyDict

\* the sequences over S of length at most n
RECURSIVE SeqsUpTo(_, _)
SeqsUpTo(S, n) ==
    IF n = 0 THEN {<<>>}
    ELSE LET shorter == SeqsUpTo(S, n - 1)
         IN shorter \cup {Append(l, x) : l \in shorter, x \in S}

\* the values of an adjacency mapping: a list, or another iterable (a tuple)
\* holding the same items
DictValues == [isList : BOOLEAN, items : SeqsUpTo(DictIds, MaxListLen)]

\* the adjacency mappings the callers hand over
GraphDicts == UNION {[K -> DictValues] : K \in SUBSET DictIds}

\* the names the first loop of from_dict passes to add_node, in order: each
\* key followed by the items of its value
RECURSIVE from_dict_names(_, _)
from_dict_names(d, keys) ==
    IF keys = <<>> THEN <<>>
    ELSE <<Head(keys)>> \o d[Head(keys)].items \o from_dict_names(d, Tail(keys))

\* the first loop of from_dict: add_node on each name until one raises
RECURSIVE from_dict_add_nodes(_, _)
from_dict_add_nodes(g, names) ==
    IF names = <<>> THEN [graph |-> g, exc |-> "none"]
    ELSE LET r == add_node(g, Head(names))
         IN IF r.exc # "none" THEN r ELSE from_dict_add_nodes(r.graph, Tail(names))

\* the inner loop of the second loop: add_edge(ind_node, dep_node) for each
\* dep_node of the list
RECURSIVE from_dict_add_edges(_, _, _, _)
from_dict_add_edges(g, out, ind_node, dep_nodes) ==
    IF dep_nodes = <<>> THEN {[graph |-> g, exc |-> "none", out |-> out]}
    ELSE UNION {IF r.exc # "none"
                THEN {[graph |-> r.graph, exc |-> r.exc, out |-> out \o r.out]}
                ELSE from_dict_add_edges(r.graph, out \o r.out, ind_node, Tail(dep_nodes))
                : r \in add_edge(g, ind_node, Head(dep_nodes))}

\* the second loop of from_dict over the items of the mapping
RECURSIVE from_dict_items(_, _, _, _)
from_dict_items(g, out, d, keys) ==
    IF keys = <<>> THEN {[graph |-> g, exc |-> "none", out |-> out]}
    ELSE IF ~d[Head(keys)].isList
    THEN {[graph |-> g, exc |-> "TypeError", out |-> out]}
    ELSE UNION {IF r.exc # "none" THEN {r}
                ELSE from_dict_items(r.graph, r.out, d, Tail(keys))
                : r \in from_dict_add_edges(g, out, Head(keys), d[Head(keys)].items)}

\* every outcome of from_dict(d) when the mapping iterates its keys in the
\* order keys; lv and ml are self.levels and self.max_level before the call
from_dict(d, keys, lv, ml) ==
    LET n == from_dict_add_nodes(reset_graph(EmptyDict), from_dict_names(d, keys))
    IN IF n.exc # "none"
       THEN {[graph |-> n.graph, levels |-> lv, max_level |-> ml,
              exc |-> n.exc, out |-> <<>>]}
       ELSE UNION {IF e.exc # "none"
                   THEN {[graph |-> e.graph, levels |-> lv, max_level |-> ml,
                          exc |-> e.exc, out |-> e.out]}
                   ELSE {[graph |-> e.graph, levels |-> b.levels,
                          max_level |-> b.max_level, exc |-> b.exc, out |-> e.out]
                         : b \in build_levels(e.graph, ml)}
                   : e \in from_dict_items(n.graph, <<>>, d, keys)}

\* the nested mapping in which every key k hangs below parent[k]; a key
\* whose chain of parents does not end at None is left out
RECURSIVE Nest(_, _)
Nest(parent, p) ==
    [k \in {k \in DOMAIN parent : parent[k] = p} |-> Nest(parent, k)]

\* the hierarchies the callers hand over: nested mappings with pairwise
\* distinct keys, every leaf an empty mapping
JsonInputs ==
    {Nest(parent, None) :
        parent \in UNION {[K -> K \cup {None}] : K \in SUBSET JsonIds}}

\* the pairs json2edges(parent, children) yields, in order, for every order
\* in which the mappings iterate their items; iters is the stack of mappings
\* still to walk.  Every value of the hierarchies above is a dict.
RECURSIVE json2edges_while(_)
json2edges_while(iters) ==
    IF iters = <<>> THEN {<<>>}
    ELSE LET parent == iters[Len(iters)][1]
             children == iters[Len(iters)][2]
             popped == SubSeq(iters, 1, Len(iters) - 1)
             pushed(items) ==
                 SelectSeq([i \in 1..Len(items) |-> <<items[i], children[items[i]]>>],
                           LAMBDA kv : kv[2] # EmptyDict)
         IN UNION {{[i \in 1..Len(items) |-> <<parent, items[i]>>] \o rest
                    : rest \in json2edges_while(popped \o pushed(items))}
                   : items \in Orders(DOMAIN children)}

json2edges(parent, children) == json2edges_while(<<<<parent, children>>>>)

\* the body of from_json's inner loop for each yielded pair in turn
RECURSIVE from_json_edges(_, _, _)
from_json_edges(g, out, edges) ==
    IF edges = <<>> THEN {[graph |-> g, exc |-> "none", out |-> out]}
    ELSE LET p == add_node_if_not_exists(g, Head(edges)[1])
             c == add_node_if_not_exists(p.graph, Head(edges)[2])
         IN UNION {IF r.exc # "none"
                   THEN {[graph |-> r.graph, exc |-> r.exc, out |-> out \o r.out]}
                   ELSE from_json_edges(r.graph, out \o r.out, Tail(edges))
                   : r \in add_edge(c.graph, Head(edges)[1], Head(edges)[2])}

\* from_json's loop over start_nodes; js[start_node] raises KeyError when
\* start_node is no top-level key
RECURSIVE from_json_for(_, _, _, _)
from_json_for(g, out, j, start_nodes) ==
    IF start_nodes = <<>> THEN {[graph |-> g, exc |-> "none", out |-> out]}
    ELSE IF Head(start_nodes) \notin DOMAIN j
    THEN {[graph |-> g, exc |-> "KeyError", out |-> out]}
    ELSE UNION {UNION {IF r.exc # "none" THEN {r}
                       ELSE from_json_for(r.graph, r.out, j, Tail(start_nodes))
                       : r \in from_json_edges(g, out, edges)}
                : edges \in json2edges(Head(start_nodes), j[Head(start_nodes)])}

\* every outcome of from_json(j, st) when j iterates its keys in the order
\* keys; lv and ml are self.levels and self.max_level before the call
from_json(j, st, keys, lv, ml) ==
    LET start_nodes == IF st # None THEN <<st>> ELSE keys
    IN UNION {IF e.exc # "none"
              THEN {[graph |-> e.graph, levels |-> lv, max_level |-> ml,
                     exc |-> e.exc, out |-> e.out]}
              ELSE {[graph |-> e.graph, levels |-> b.levels,
                     max_level |-> b.max_level, exc |-> b.exc, out |-> e.out]
                    : b \in build_levels(e.graph, ml)}
              : e \in from_json_for(reset_graph(EmptyDict), <<>>, j, start_nodes)}

\* ------------------------------------------------------------------------
\* The state machine: one action per method, parametrised by its arguments

Init ==
    /\ graph = EmptyDict
    /\ levels = EmptyDict
    /\ max_level = -1
    /\ graph_dict = EmptyDict
    /\ js = EmptyDict
    /\ start = None
    /\ adding = <<>>
    /\ call = Call("__init__", "none", <<>>)
    /\ answer = NoAnswer

AddNodeLevelled(n) ==
    LET r == add_node(graph, n)
    IN /\ graph' = r.graph
       /\ levels' = IF r.exc = "none" THEN Put(levels, n, 0) ELSE levels
       /\ max_level' = IF r.exc = "none" /\ max_level < 0 THEN 0 ELSE max_level
       /\ call' = Call("add_node", r.exc, <<>>)
       /\ UNCHANGED <<graph_dict, js, start, adding, answer>>

AddNode(n) ==
    LET r == add_node(graph, n)
    IN /\ graph' = r.graph
       /\ call' = Call("add_node", r.exc, <<>>)
       /\ UNCHANGED <<levels, max_level, graph_dict, js, start, adding, answer>>

AddNodeIfNotExists(n) ==
    LET r == add_node_if_not_exists(graph, n)
    IN /\ graph' = r.graph
       /\ call' = Call("add_node_if_not_exists", r.exc, <<>>)
       /\ UNCHANGED <<levels, max_level, graph_dict, js, start, adding, answer>>

DeleteNode(n) ==
    LET r == delete_node(graph, n)
    IN /\ graph' = r.graph
       /\ call' = Call("delete_node", r.exc, <<>>)
       /\ UNCHANGED <<levels, max_level, graph_dict, js, start, adding, answer>>

DeleteNodeIfExists(n) ==
    LET r == delete_node_if_exists(graph, n)
    IN /\ graph' = r.graph
       /\ call' = Call("delete_node_if_exists", r.exc, <<>>)
       /\ UNCHANGED <<levels, max_level, graph_dict, js, start, adding, answer>>

\* the callers stop adding edges once the graph holds MaxEdges of them
AddEdge(u, v) ==
    \E r \in add_edge(graph, u, v) :
        /\ Cardinality(Edges(r.graph)) <= MaxEdges
        /\ graph' = r.graph
        /\ call' = Call("add_edge", r.exc, r.out)
        /\ UNCHANGED <<levels, max_level, graph_dict, js, start, adding, answer>>

DeleteEdge(u, v) ==
    LET r == delete_edge(graph, u, v)
    IN /\ graph' = r.graph
       /\ call' = Call("delete_edge", r.exc, <<>>)
       /\ UNCHANGED <<levels, max_level, graph_dict, js, start, adding, answer>>

Next ==
    \/ \E n \in NodeIds : AddNode(n)
    \/ \E n \in NodeIds : AddNodeIfNotExists(n)
    \/ \E n \in NodeIds : DeleteNode(n)
    \/ \E n \in NodeIds : DeleteNodeIfExists(n)
    \/ \E u, v \in NodeIds : AddEdge(u, v)
    \/ \E u, v \in NodeIds : DeleteEdge(u, v)

Spec == Init /\ [][Next]_vars

\* the callers that only grow and prune: they add nodes, add edges and
\* delete edges
NextEdges ==
    \/ \E n \in NodeIds : AddNode(n)
    \/ \E u, v \in NodeIds : AddEdge(u, v)
    \/ \E u, v \in NodeIds : DeleteEdge(u, v)

SpecEdges == Init /\ [][NextEdges]_vars

\* ------------------------------------------------------------------------
\* add_edge step by step.  When both nodes exist and the edge is new,
\* add_edge first inserts the edge and then has validate() look at the
\* graph; every other call is over in one step.

AddEdgeInsert(u, v) ==
    /\ u \in DOMAIN graph /\ v \in DOMAIN graph
    /\ v \notin graph[u]
    /\ Cardinality(Edges(graph)) < MaxEdges
    /\ graph' = [graph EXCEPT ![u] = @ \cup {v}]
    /\ adding' = <<u, v>>
    /\ UNCHANGED <<levels, max_level, graph_dict, js, start, call, answer>>

AddEdgeValidate ==
    \E v \in validate(graph) :
        /\ graph' = IF ~v[1] THEN [graph EXCEPT ![adding[1]] = @ \ {adding[2]}]
                    ELSE graph
        /\ call' = Call("add_edge", "none", IF ~v[1] THEN <<v[2]>> ELSE <<>>)
        /\ adding' = <<>>
        /\ UNCHANGED <<levels, max_level, graph_dict, js, start, answer>>

NextSteps ==
    \/ adding = <<>> /\ \E n \in NodeIds : AddNode(n)
    \/ adding = <<>> /\ \E u, v \in NodeIds : DeleteEdge(u, v)
    \/ adding = <<>> /\ \E u, v \in NodeIds : AddEdgeInsert(u, v)
    \/ adding # <<>> /\ AddEdgeValidate

SpecSteps == Init /\ [][NextSteps]_vars

\* ------------------------------------------------------------------------
\* Queries.  A query leaves the object as it is; in this model the caller
\* builds a graph, asks one question and looks at the answer.

TopologicalSort ==
    \E t \in topological_sort(graph) :
        /\ answer' = Answer("topological_sort", <<>>, t.exc, t.ret)
        /\ UNCHANGED <<graph, levels, max_level, graph_dict, js, start, adding, call>>

AllDownstreams(n) ==
    \E r \in all_downstreams(graph, n) :
        /\ answer' = Answer("all_downstreams", <<n>>, r.exc, r.ret)
        /\ UNCHANGED <<graph, levels, max_level, graph_dict, js, start, adding, call>>

NextQuery ==
    \/ answer = NoAnswer /\ Next
    \/ answer = NoAnswer /\ TopologicalSort
    \/ answer = NoAnswer /\ \E n \in NodeIds : AllDownstreams(n)

SpecQuery == Init /\ [][NextQuery]_vars

\* ------------------------------------------------------------------------
\* Level building.  build_levels starts from an empty mapping, so what it
\* computes depends on the graph alone; in this model the caller builds a
\* graph and then has it levelled.

BuildLevels ==
    \E r \in build_levels(graph, max_level) :
        /\ levels' = r.levels
        /\ max_level' = r.max_level
        /\ call' = Call("build_levels", r.exc, <<>>)
        /\ UNCHANGED <<graph, graph_dict, js, start, adding, answer>>

NextLevels ==
    \/ call.op # "build_levels" /\ Next
    \/ BuildLevels

SpecLevels == Init /\ [][NextLevels]_vars

\* The callers that go on after level building: they build a graph, have it
\* levelled once, and make one more mutating call.
NextStale ==
    \/ (levels = EmptyDict \/ call.op = "build_levels") /\ Next
    \/ levels = EmptyDict /\ BuildLevels

SpecStale == Init /\ [][NextStale]_vars

\* ------------------------------------------------------------------------
\* The upstream() query after level building.

\* get_nodes_at_depth(level) in every order the levels dict can iterate in:
\* a dict iterates in insertion order, and build_levels inserts the nodes of
\* one level in the order batch.pop() hands them out
get_nodes_at_depth(lv, level) == Orders({key \in DOMAIN lv : lv[key] = level})

\* depth(node): KeyError when the node has no level
depth(lv, node) ==
    IF node \in DOMAIN lv THEN [exc |-> "none", ret |-> lv[node]]
    ELSE [exc |-> "KeyError", ret |-> <<>>]

RECURSIVE upstream_while(_, _, _, _)
RECURSIVE upstream_for(_, _, _, _, _)
RECURSIVE upstream_for_children(_, _, _, _, _)

upstream_for_children(g, lv, d, path, possible_parents) ==
    IF possible_parents = <<>> THEN upstream_while(g, lv, d, path)
    ELSE IF Head(possible_parents) \notin DOMAIN g
    THEN {[exc |-> "KeyError", ret |-> <<>>]}
    ELSE upstream_for_children(g, lv, d,
             IF Head(possible_parents) \in g[path[Len(path)]]
             THEN Append(path, Head(possible_parents)) ELSE path,
             Tail(possible_parents))

\* the for loop over possible_parents: every parent of the current last
\* entry is appended (continue goes on with the next possible parent);
\* self.graph[possible_parent] raises KeyError for a levelled identifier that
\* is no node
upstream_for(g, lv, d, path, possible_parents) ==
    IF possible_parents = <<>> THEN upstream_while(g, lv, d, path)
    ELSE IF Head(possible_parents) \notin DOMAIN g
    THEN {[exc |-> "KeyError", ret |-> <<>>]}
    ELSE upstream_for(g, lv, d,
             IF path[Len(path)] \in g[Head(possible_parents)]
             THEN Append(path, Head(possible_parents)) ELSE path,
             Tail(possible_parents))

\* the while loop: d is depth on entry to the loop test
upstream_while(g, lv, d, path) ==
    IF ~(d > -1) THEN {[exc |-> "none", ret |-> path]}
    ELSE UNION {upstream_for(g, lv, d - 1, path, possible_parents)
                : possible_parents \in get_nodes_at_depth(lv, d - 1)}

\* every outcome of upstream(node)
upstream(g, lv, node) ==
    IF node \notin DOMAIN g THEN {[exc |-> "none", ret |-> <<>>]}
    ELSE IF depth(lv, node).exc # "none" THEN {depth(lv, node)}
    ELSE upstream_while(g, lv, depth(lv, node).ret, <<node>>)

Upstream(n) ==
    \E r \in upstream(graph, levels, n) :
        /\ answer' = Answer("upstream", <<n>>, r.exc, r.ret)
        /\ UNCHANGED <<graph, levels, max_level, graph_dict, js, start, adding, call>>

NextUpstream ==
    \/ answer = NoAnswer /\ NextLevels
    \/ answer = NoAnswer /\ \E n \in NodeIds : Upstream(n)

SpecUpstream == Init /\ [][NextUpstream]_vars

\* ------------------------------------------------------------------------
\* Construction from an adjacency mapping: the caller holds some mapping and
\* hands it to from_dict of a new DAG.

InitFromDict ==
    /\ graph = EmptyDict
    /\ levels = EmptyDict
    /\ max_level = -1
    /\ graph_dict \in GraphDicts
    /\ js = EmptyDict
    /\ start = None
    /\ adding = <<>>
    /\ call = Call("__init__", "none", <<>>)
    /\ answer = NoAnswer

FromDict ==
    \E keys \in Orders(DOMAIN graph_dict) :
        \E r \in from_dict(graph_dict, keys, levels, max_level) :
            /\ graph' = r.graph
            /\ levels' = r.levels
            /\ max_level' = r.max_level
            /\ call' = Call("from_dict", r.exc, r.out)
            /\ UNCHANGED <<graph_dict, js, start, adding, answer>>

NextFromDict == FromDict

SpecFromDict == InitFromDict /\ [][NextFromDict]_vars

\* ------------------------------------------------------------------------
\* The all_paths() query on the graph the mutations built.

\* all_leaves as a membership test: the nodes without successors
all_leaves(g) == {key \in DOMAIN g : g[key] = {}}

\* the while loop of all_paths for one start node, for every order in which
\* the set differences iterate; stack holds (vertex, path) pairs
RECURSIVE all_paths_while(_, _, _)
all_paths_while(g, stack, paths) ==
    IF stack = <<>> THEN {paths}
    ELSE LET vertex == stack[Len(stack)][1]
             path == stack[Len(stack)][2]
             popped == SubSeq(stack, 1, Len(stack) - 1)
             step(nexts) == [i \in 1..Len(nexts) |-> path \o <<nexts[i]>>]
             found(nexts) ==
                 SelectSeq(step(nexts), LAMBDA q : q[Len(q)] \in all_leaves(g))
             pushed(nexts) ==
                 SelectSeq([i \in 1..Len(nexts) |-> <<nexts[i], step(nexts)[i]>>],
                           LAMBDA e : e[1] \notin all_leaves(g))
         IN UNION {all_paths_while(g, popped \o pushed(nexts), paths \o found(nexts))
                   : nexts \in Orders(g[vertex] \ {path[i] : i \in 1..Len(path)})}

\* the for loop over start_nodes; self.graph[vertex] raises KeyError when
\* the start is no node
RECURSIVE all_paths_for(_, _, _)
all_paths_for(g, start_nodes, paths) ==
    IF start_nodes = <<>> THEN {[exc |-> "none", ret |-> paths]}
    ELSE IF Head(start_nodes) \notin DOMAIN g
    THEN {[exc |-> "KeyError", ret |-> <<>>]}
    ELSE UNION {all_paths_for(g, Tail(start_nodes), found)
                : found \in all_paths_while(
                      g, <<<<Head(start_nodes), <<Head(start_nodes)>>>>>>, paths)}

all_paths_every_start(g, st) ==
    UNION {all_paths_for(g, start_nodes, <<>>)
           : start_nodes \in IF st = None THEN Orders(DOMAIN g) ELSE {<<st>>}}

\* every outcome of all_paths(st)
all_paths(g, st) ==
    UNION {all_paths_for(g, start_nodes, <<>>)
           : start_nodes \in IF st = None THEN Orders(ind_nodes(g)) ELSE {<<st>>}}

AllPaths(st) ==
    \E r \in all_paths(graph, st) :
        /\ answer' = Answer("all_paths", <<st>>, r.exc, r.ret)
        /\ UNCHANGED <<graph, levels, max_level, graph_dict, js, start, adding, call>>

NextPaths ==
    \/ answer = NoAnswer /\ Next
    \/ answer = NoAnswer /\ \E st \in {None} \cup NodeIds : AllPaths(st)

SpecPaths == Init /\ [][NextPaths]_vars

\* ------------------------------------------------------------------------
\* Construction from a nested hierarchy: the caller holds some hierarchy and
\* hands it to from_json of a new DAG, with or without a start key.

InitFromJson ==
    /\ graph = EmptyDict
    /\ levels = EmptyDict
    /\ max_level = -1
    /\ graph_dict = EmptyDict
    /\ js \in JsonInputs
    /\ start \in {None} \cup JsonIds
    /\ adding = <<>>
    /\ call = Call("__init__", "none", <<>>)
    /\ answer = NoAnswer

FromJson ==
    \E keys \in Orders(DOMAIN js) :
        \E r \in from_json(js, start, keys, levels, max_level) :
            /\ graph' = r.graph
            /\ levels' = r.levels
            /\ max_level' = r.max_level
            /\ call' = Call("from_json", r.exc, r.out)
            /\ UNCHANGED <<graph_dict, js, start, adding, answer>>

NextFromJson == FromJson

SpecFromJson == InitFromJson /\ [][NextFromJson]_vars

\* ------------------------------------------------------------------------
\* The validate() query on the graph the mutations built.

Validate ==
    \E v \in validate(graph) :
        /\ answer' = Answer("validate", <<>>, "none", v)
        /\ UNCHANGED <<graph, levels, max_level, graph_dict, js, start, adding, call>>

NextValidate ==
    \/ answer = NoAnswer /\ Next
    \/ answer = NoAnswer /\ Validate

SpecValidate == Init /\ [][NextValidate]_vars

\* ------------------------------------------------------------------------
\* Reset.  The caller builds a graph, may have it levelled, and resets it.

ResetGraph ==
    /\ graph' = reset_graph(graph)
    /\ call' = Call("reset_graph", "none", <<>>)
    /\ UNCHANGED <<levels, max_level, graph_dict, js, start, adding, answer>>

NextReset ==
    \/ call.op \notin {"build_levels", "reset_graph"} /\ Next
    \/ BuildLevels
    \/ ResetGraph

SpecReset == Init /\ [][NextReset]_vars

\* ------------------------------------------------------------------------
\* Properties of the mutations (checked under Spec)

\* some node has a successor that itself has a successor
HasPath2(g) == \E n \in DOMAIN g : \E m \in g[n] : m \in DOMAIN g /\ g[m] # {}

\* C1: whatever sequence of add_node, add_node_if_not_exists, add_edge,
\* delete_edge, delete_node and delete_node_if_exists calls has completed,
\* no node reaches itself by one or more successor edges.
C1_Acyclic == Acyclic(graph)

\* an edge closing a three-node ring has just been refused
C1_Witness ==
    /\ call.op = "add_edge"
    /\ call.out = <<"no independent nodes detected">>
    /\ HasPath2(graph)

\* C2: in every reachable graph, whichever existing nodes u, v are such that
\* u->v would close a cycle (u = v, or v already reaches u), every way
\* add_edge(u, v) can end leaves the node set and every successor set as
\* they were.
C2_CycleEdgeLeavesGraph ==
    \A u, v \in DOMAIN graph :
        ClosesCycle(graph, u, v) =>
            \A r \in add_edge(graph, u, v) : r.graph = graph

\* a cycle-closing edge has just been refused in a graph that keeps a root
C2_Witness ==
    /\ call.op = "add_edge"
    /\ call.out = <<"failed topological sort">>
    /\ Edges(graph) # {}

\* C3: an add_edge(u, v) between existing nodes that would close a cycle
\* ends with DAGValidationError raised to the caller.
C3_CycleEdgeRaises ==
    [][\/ call'.exc = "DAGValidationError"
       \/ \A u, v \in DOMAIN graph :
             ~(ClosesCycle(graph, u, v) /\ AddEdge(u, v))]_vars

\* C6: delete_node(id) on a graph containing id removes id, strips it from
\* every successor set and leaves all other nodes and edges as they were.
C6_DeleteNodeRemoves ==
    [][\A n \in DOMAIN graph :
          DeleteNode(n) =>
              /\ DOMAIN graph' = (DOMAIN graph) \ {n}
              /\ \A k \in DOMAIN graph' : graph'[k] = graph[k] \ {n}]_vars

\* C7: add_node(id) on a graph containing id fails and changes nothing;
\* add_node_if_not_exists(id) there returns normally and changes nothing;
\* with id absent both insert id with no successors and change nothing else.
C7_AddNode ==
    [][call'.op \in {"add_node", "add_node_if_not_exists"} => \A n \in NodeIds :
          /\ (n \in DOMAIN graph /\ AddNode(n))
                => (call'.exc # "none" /\ graph' = graph)
          /\ (n \in DOMAIN graph /\ AddNodeIfNotExists(n))
                => (call'.exc = "none" /\ graph' = graph)
          /\ (n \notin DOMAIN graph /\ (AddNode(n) \/ AddNodeIfNotExists(n)))
                => /\ call'.exc = "none"
                   /\ DOMAIN graph' = (DOMAIN graph) \cup {n}
                   /\ graph'[n] = {}
                   /\ \A k \in DOMAIN graph : graph'[k] = graph[k]]_vars

\* add_node has just failed on a graph that has edges
C7_Witness ==
    /\ call.op = "add_node"
    /\ call.exc = "ValueError"
    /\ Edges(graph) # {}

\* ------------------------------------------------------------------------
\* Properties of the queries (checked under SpecQuery)

\* l lists every member of S exactly once
Enumerates(l, S) ==
    /\ Len(l) = Cardinality(S)
    /\ {l[i] : i \in 1..Len(l)} = S

\* every edge of g between two entries of l points from an earlier entry to
\* a later one
EdgesPointForward(g, l) ==
    \A i, j \in 1..Len(l) : l[j] \in g[l[i]] => i < j

\* C4: on every graph reachable through the mutations, topological_sort
\* returns a sequence holding every node exactly once in which u comes
\* before v for every edge u->v.
C4_TopologicalSort ==
    answer.op = "topological_sort" =>
        /\ answer.exc = "none"
        /\ Enumerates(answer.ret, DOMAIN graph)
        /\ EdgesPointForward(graph, answer.ret)

\* a diamond-or-longer graph has been sorted
C4_Witness ==
    /\ answer.op = "topological_sort"
    /\ HasPath2(graph)
    /\ Len(answer.ret) >= 3

\* C10: all_downstreams(n) on a node n yields exactly the nodes reachable
\* from n by one or more successor edges, each once, u before v for every
\* edge u->v between two of them; on an identifier that is not a node it
\* fails with KeyError.
C10_AllDownstreams ==
    answer.op = "all_downstreams" =>
        LET n == answer.args[1]
        IN IF n \in DOMAIN graph
           THEN /\ answer.exc = "none"
                /\ Enumerates(answer.ret, Reach(graph, n))
                /\ EdgesPointForward(graph, answer.ret)
           ELSE answer.exc = "KeyError"

\* the closure of a node with a two-edge path below it has been returned
C10_Witness ==
    /\ answer.op = "all_downstreams"
    /\ answer.exc = "none"
    /\ Len(answer.ret) >= 2
    /\ \E m \in graph[answer.args[1]] : graph[m] # {}

\* all_downstreams has been asked about an identifier that is not a node
C10_WitnessMissing ==
    /\ answer.op = "all_downstreams"
    /\ answer.args[1] \notin DOMAIN graph
    /\ DOMAIN graph # {}

\* ------------------------------------------------------------------------
\* Properties of level building (checked under SpecLevels)

\* build_levels has just completed normally
JustLevelled == call.op = "build_levels" /\ call.exc = "none"

\* the nodes without incoming edge
Independent(g) == {n \in DOMAIN g : \A k \in DOMAIN g : n \notin g[k]}

\* the least number of edges on a path from a node of frontier to n, counted
\* from d; -1 if there is no such path
RECURSIVE HopsFrom(_, _, _, _)
HopsFrom(g, frontier, d, n) ==
    IF n \in frontier THEN d
    ELSE LET nxt == frontier \cup UNION {g[x] : x \in frontier}
         IN IF nxt = frontier THEN -1 ELSE HopsFrom(g, nxt, d + 1, n)

Hops(g, n) == HopsFrom(g, Independent(g), 0, n)

\* C8 as stated: right after build_levels, for every edge u->v with both
\* ends levelled, levels[v] >= levels[u].
C8_LevelsGrowAlongEdges ==
    JustLevelled =>
        \A u \in DOMAIN graph : \A v \in graph[u] :
            (u \in DOMAIN levels /\ v \in DOMAIN levels) => levels[v] >= levels[u]

\* C8 amended: right after build_levels, for every edge u->v with both ends
\* levelled, levels[v] <= levels[u] + 1.
C8_LevelsStepAlongEdges ==
    JustLevelled =>
        \A u \in DOMAIN graph : \A v \in graph[u] :
            (u \in DOMAIN levels /\ v \in DOMAIN levels) => levels[v] <= levels[u] + 1

\* a graph has been levelled in which an edge leads to a shallower node
C8_Witness ==
    /\ JustLevelled
    /\ \E u \in DOMAIN graph : \E v \in graph[u] : levels[v] < levels[u]

\* C9: build_levels on a non-empty graph completes, gives every node a
\* level, the level is the least number of edges from an independent node,
\* level 0 holds exactly the independent nodes, every other node has a
\* predecessor one level up, and max_level is the largest level.
C9_LevelsAreShortestHops ==
    (call.op = "build_levels" /\ DOMAIN graph # {}) =>
        /\ call.exc = "none"
        /\ DOMAIN levels = DOMAIN graph
        /\ \A n \in DOMAIN graph : levels[n] = Hops(graph, n)
        /\ {n \in DOMAIN graph : levels[n] = 0} = Independent(graph)
        /\ \A v \in DOMAIN graph :
              levels[v] # 0 =>
                  \E u \in DOMAIN graph : v \in graph[u] /\ levels[v] = levels[u] + 1
        /\ \A n \in DOMAIN graph : levels[n] <= max_level
        /\ \E n \in DOMAIN graph : levels[n] = max_level

\* a graph with two independent nodes and three levels has been levelled
C9_Witness ==
    /\ JustLevelled
    /\ Cardinality(Independent(graph)) >= 2
    /\ max_level >= 2

\* ------------------------------------------------------------------------
\* Properties of from_dict (checked under SpecFromDict)

\* the members of a sequence
Range(l) == {l[i] : i \in 1..Len(l)}

\* the graph an adjacency mapping describes: its keys and listed items as
\* nodes, key -> item as edges
Described(d) ==
    LET ids == (DOMAIN d) \cup UNION {Range(d[k].items) : k \in DOMAIN d}
    IN [n \in ids |-> IF n \in DOMAIN d THEN Range(d[n].items) ELSE {}]

\* C5: for every acyclic adjacency mapping whose values are lists (with at
\* least one key, no list naming a successor twice), also one in which a
\* node is both a key and a listed successor or is listed under several
\* keys, from_dict completes without error and leaves exactly the graph the
\* mapping describes.
C5_FromDictBuildsMapping ==
    ( /\ call.op = "from_dict"
      /\ DOMAIN graph_dict # {}
      /\ \A k \in DOMAIN graph_dict :
            /\ graph_dict[k].isList
            /\ Cardinality(Range(graph_dict[k].items)) = Len(graph_dict[k].items)
      /\ Acyclic(Described(graph_dict)) )
    => (call.exc = "none" /\ graph = Described(graph_dict))

\* ------------------------------------------------------------------------
\* Properties of reset_graph (checked under SpecReset)

\* C11: after reset_graph, also when build_levels ran before it, the graph
\* has no nodes and no edges and the levels mapping is empty.
C11_ResetClearsLevels ==
    call.op = "reset_graph" => (graph = EmptyDict /\ levels = EmptyDict)

\* ------------------------------------------------------------------------
\* Properties of validate (checked under SpecValidate)

\* the verdict the three cases of the claim assign to a graph
ValidateVerdict(g) ==
    IF DOMAIN g # {} /\ ind_nodes(g) = {}
    THEN <<FALSE, "no independent nodes detected">>
    ELSE IF ind_nodes(g) # {} /\ ~Acyclic(g)
    THEN <<FALSE, "failed topological sort">>
    ELSE <<TRUE, "valid">>

\* C12: validate() answers 'no independent nodes detected' exactly for a
\* non-empty graph without a zero in-degree node, 'failed topological sort'
\* exactly for a graph with such a node and a cycle, and (True, 'valid')
\* otherwise, the empty graph included.
C12_ValidateVerdict ==
    answer.op = "validate" => answer.ret = ValidateVerdict(graph)

\* ------------------------------------------------------------------------
\* Properties of from_json (checked under SpecFromJson)

\* every key of the hierarchy j, at any nesting level
RECURSIVE AllKeys(_)
AllKeys(j) == DOMAIN j \cup UNION {AllKeys(j[k]) : k \in DOMAIN j}

\* the (parent key, child key) pairs of directly nested keys of j
RECURSIVE NestedPairs(_)
NestedPairs(j) ==
    UNION {{<<k, c>> : c \in DOMAIN j[k]} \cup NestedPairs(j[k]) : k \in DOMAIN j}

\* C13: after from_json(js) without a start, of a hierarchy with pairwise
\* distinct keys, the nodes are exactly the keys of every nesting level (a
\* top-level key with an empty mapping included) and the edges are exactly
\* the pairs of directly nested keys.
C13_FromJsonBuildsHierarchy ==
    (call.op = "from_json" /\ start = None)
    => /\ DOMAIN graph = AllKeys(js)
       /\ UNION {{<<u, v>> : v \in graph[u]} : u \in DOMAIN graph} = NestedPairs(js)

\* ------------------------------------------------------------------------
\* Properties of all_paths (checked under SpecPaths)

\* the paths that start at n, follow successor edges and end at a node
\* without successors (n alone when n has none)
RECURSIVE PathsToLeaf(_, _)
PathsToLeaf(g, n) ==
    IF g[n] = {} THEN {<<n>>}
    ELSE UNION {{<<n>> \o q : q \in PathsToLeaf(g, m)} : m \in g[n]}

\* C14: all_paths() lists, each exactly once, the paths of one or more edges
\* from an independent node along successor edges to a node without
\* successors; all_paths(start) for a node start lists those from start.
C14_AllPaths ==
    (answer.op = "all_paths" /\ answer.args[1] \in {None} \cup DOMAIN graph)
    => /\ answer.exc = "none"
       /\ Enumerates(answer.ret,
              {q \in UNION {PathsToLeaf(graph, n)
                            : n \in IF answer.args[1] = None
                                    THEN ind_nodes(graph) ELSE {answer.args[1]}}
               : Len(q) >= 2})

\* all_paths() returned several paths, one of them of two edges or more
C14_Witness ==
    /\ answer.op = "all_paths"
    /\ answer.args[1] = None
    /\ Len(answer.ret) >= 2
    /\ \E i \in 1..Len(answer.ret) : Len(answer.ret[i]) >= 3

\* ------------------------------------------------------------------------
\* Properties of add_edge (checked under Spec and SpecEdges)

\* C15: no successor set ever names an identifier that is not a node, and
\* add_edge(u, v) with u or v absent ends in KeyError with the graph as it
\* was.
C15_NoDanglingEdges ==
    /\ \A n \in DOMAIN graph : graph[n] \subseteq DOMAIN graph
    /\ \A u, v \in NodeIds :
          (u \notin DOMAIN graph \/ v \notin DOMAIN graph)
          => \A r \in add_edge(graph, u, v) :
                r.exc = "KeyError" /\ r.graph = graph

\* add_edge just failed on a missing node, on a graph that has edges
C15_Witness ==
    /\ call.op = "add_edge"
    /\ call.exc = "KeyError"
    /\ Edges(graph) # {}

\* C16: for existing nodes u, v without the edge u->v, add_edge(u, v) leaves
\* the edge in the graph iff u # v and v could not reach u; nothing else
\* changes, and when the edge already exists the call changes nothing.
C16_EdgeKeptIffAcyclic ==
    \A u, v \in DOMAIN graph :
        \A r \in add_edge(graph, u, v) :
            /\ r.exc = "none"
            /\ r.graph = IF ClosesCycle(graph, u, v) THEN graph
                         ELSE [graph EXCEPT ![u] = @ \cup {v}]

\* a graph on which add_edge accepts one new edge, refuses another that is
\* no self-loop, and finds a third already there
C16_Witness ==
    \E u, v, w, x \in DOMAIN graph :
        /\ v \notin graph[u] /\ ~ClosesCycle(graph, u, v)
        /\ w # x /\ ClosesCycle(graph, w, x)
        /\ Edges(graph) # {}

\* ------------------------------------------------------------------------
\* Properties of the steps of add_edge (checked under SpecSteps)

\* C17: while add_edge has not finished validating, the live graph does not
\* hold the candidate edge, and it holds no cycle.
C17_ValidatesTrialCopy ==
    adding # <<>> => (adding[2] \notin graph[adding[1]] /\ Acyclic(graph))

\* ------------------------------------------------------------------------
\* Properties of upstream (checked under SpecUpstream)

\* C18: with levels freshly built, upstream(node) holds at most
\* depth(node) + 1 entries and no two of them share a level.
C18_OneMatchPerLevel ==
    (answer.op = "upstream" /\ JustLevelled /\ answer.args[1] \in DOMAIN graph)
    => /\ answer.exc = "none"
       /\ Len(answer.ret) <= levels[answer.args[1]] + 1
       /\ \A i, j \in 1..Len(answer.ret) :
             i # j => levels[answer.ret[i]] # levels[answer.ret[j]]

C20_LevelsNotMaintained ==
    [][call'.op \in {"add_node", "add_node_if_not_exists", "add_edge", "delete_edge"}
       => (levels' = levels /\ max_level' = max_level)]_vars

\* add_node added a node to a levelled graph, and the node has no level
C20_Witness ==
    /\ call.op = "add_node"
    /\ call.exc = "none"
    /\ levels # EmptyDict
    /\ \E n \in DOMAIN graph : n \notin DOMAIN levels

====
